---- MODULE Spec2Model ----
(***************************************************************************)
(* The statistics functions of src/lib.rs (mean, stddev, median, l2) over  *)
(* a slice of floating-point numbers.                                      *)
(*                                                                         *)
(* f64 is modelled as a binary floating-point format of the same shape at  *)
(* reduced size: a sign, Prec significand bits, exponents 0..MaxExp above  *)
(* the smallest one, gradual underflow, signed zeros, two infinities and   *)
(* one NaN.  Every arithmetic operation rounds the exact result to the     *)
(* nearest representable value, ties to even, and overflows to infinity,   *)
(* as IEEE 754 prescribes for f64.  A finite float is held as a sign and   *)
(* a magnitude counted in units of the smallest positive float, which is   *)
(* 2^-FracBits.                                                            *)
(***************************************************************************)
EXTENDS Integers, Sequences, FiniteSets, TLC

VARIABLES nums, op, result, local

vars == <<nums, op, result, local>>

(* ------------------------------ bounds --------------------------------- *)

MaxLen == 3

Prec == 5

FracBits == 2

MaxExp == 4

(* ------------------------- the float format ---------------------------- *)

Pow2(n) == 2 ^ n

\* the magnitude of 1.0
Unit == Pow2(FracBits)

\* the magnitude of the largest finite float
MaxMag == (Pow2(Prec) - 1) * Pow2(MaxExp)

\* the magnitude of the smallest normal float; below it the spacing is fixed
MinNormal == Pow2(Prec - 1)

Fin(s, m) == [k |-> "fin", s |-> s, m |-> m]

Infinity(s) == [k |-> "inf", s |-> s, m |-> 0]

NaN == [k |-> "nan", s |-> 0, m |-> 0]

Zero == Fin(0, 0)

NegZero == Fin(1, 0)

IsNaN(a) == a.k = "nan"

IsFinite(a) == a.k = "fin"

\* m is the magnitude of a finite float
Representable(m) ==
    /\ m <= MaxMag
    /\ \E e \in 0..MaxExp : m % Pow2(e) = 0 /\ m \div Pow2(e) < Pow2(Prec)

F64 ==
    {Fin(s, m) : s \in {0, 1}, m \in {x \in 0..MaxMag : Representable(x)}}
        \cup {Infinity(0), Infinity(1), NaN}

\* the exponent of the binade that holds a value whose integer part is fl
RECURSIVE ExpOf(_, _)
ExpOf(fl, e) == IF fl < Pow2(Prec + e) THEN e ELSE ExpOf(fl, e + 1)

\* Round to nearest, ties to even, between the neighbours lo and lo + step;
\* c is the sign of (exact value - midpoint).  Past MaxMag the result is
\* an infinity.
Pick(s, lo, step, c) ==
    LET r == IF c < 0 THEN lo
             ELSE IF c > 0 THEN lo + step
             ELSE IF (lo \div step) % 2 = 0 THEN lo ELSE lo + step
    IN  IF r > MaxMag THEN Infinity(s) ELSE Fin(s, r)

\* the float nearest to the rational n/d (n >= 0, d > 0), with sign s
RoundRat(s, n, d) ==
    LET fl == n \div d
        step == Pow2(ExpOf(fl, 0))
        lo == (fl \div step) * step
    IN  Pick(s, lo, step, 2 * n - d * (2 * lo + step))

RECURSIVE ISqrt(_)
ISqrt(n) ==
    IF n < 2 THEN n
    ELSE LET r == 2 * ISqrt(n \div 4)
         IN  IF (r + 1) * (r + 1) <= n THEN r + 1 ELSE r

\* the float nearest to the square root of the integer n >= 0
RoundSqrt(n) ==
    LET fl == ISqrt(n)
        step == Pow2(ExpOf(fl, 0))
        lo == (fl \div step) * step
    IN  Pick(0, lo, step, 4 * n - (2 * lo + step) * (2 * lo + step))

Signed(a) == IF a.s = 1 THEN 0 - a.m ELSE a.m

Xor(s, t) == IF s = t THEN 0 ELSE 1

Neg(a) == IF IsNaN(a) THEN a ELSE [a EXCEPT !.s = 1 - a.s]

Abs(a) == IF IsNaN(a) THEN a ELSE [a EXCEPT !.s = 0]

\* a + b
Add(a, b) ==
    IF IsNaN(a) \/ IsNaN(b) THEN NaN
    ELSE IF a.k = "inf" /\ b.k = "inf" THEN (IF a.s = b.s THEN a ELSE NaN)
    ELSE IF a.k = "inf" THEN a
    ELSE IF b.k = "inf" THEN b
    ELSE LET v == Signed(a) + Signed(b)
         IN  IF v = 0 THEN Fin(IF a.s = 1 /\ b.s = 1 THEN 1 ELSE 0, 0)
             ELSE IF v < 0 THEN RoundRat(1, 0 - v, 1)
             ELSE RoundRat(0, v, 1)

\* a - b
Sub(a, b) == Add(a, Neg(b))

\* a / b
Div(a, b) ==
    IF IsNaN(a) \/ IsNaN(b) THEN NaN
    ELSE IF a.k = "inf" THEN (IF b.k = "inf" THEN NaN ELSE Infinity(Xor(a.s, b.s)))
    ELSE IF b.k = "inf" THEN Fin(Xor(a.s, b.s), 0)
    ELSE IF b.m = 0 THEN (IF a.m = 0 THEN NaN ELSE Infinity(Xor(a.s, b.s)))
    ELSE RoundRat(Xor(a.s, b.s), a.m * Unit, b.m)

\* a.powf(2.0): the square, rounded once, as the exact doc-test results
\* (l2([-3.0, 4.0]) = 5.0) expect of it
Powf2(a) ==
    IF IsNaN(a) THEN NaN
    ELSE IF a.k = "inf" THEN Infinity(0)
    ELSE RoundRat(0, a.m * a.m, Unit)

\* a.sqrt()
Sqrt(a) ==
    IF IsNaN(a) THEN NaN
    ELSE IF a.s = 1 THEN (IF IsFinite(a) /\ a.m = 0 THEN a ELSE NaN)
    ELSE IF a.k = "inf" THEN a
    ELSE RoundSqrt(a.m * Unit)

\* n as f64
FromUsize(n) == RoundRat(0, n * Unit, 1)

\* the position of a non-NaN float on the extended real line
Key(a) == IF a.k = "inf" THEN (IF a.s = 1 THEN 0 - (MaxMag + 1) ELSE MaxMag + 1)
          ELSE Signed(a)

\* a.partial_cmp(b): no ordering when either side is NaN; -0.0 equals 0.0
PartialCmp(a, b) ==
    IF IsNaN(a) \/ IsNaN(b) THEN "None"
    ELSE IF Key(a) < Key(b) THEN "Less"
    ELSE IF Key(a) > Key(b) THEN "Greater"
    ELSE "Equal"

\* a == b
FEq(a, b) == PartialCmp(a, b) = "Equal"

\* a <= b
FLe(a, b) == PartialCmp(a, b) \in {"Less", "Equal"}

\* a >= b
FGe(a, b) == PartialCmp(a, b) \in {"Greater", "Equal"}

(* --------------------------- Option<f64> ------------------------------- *)

\* The outcome of a call: Some(val), None, or a panic that unwinds out of it.
Some(v) == [tag |-> "Some", val |-> v]

None == [tag |-> "None", val |-> Zero]

Panic == [tag |-> "Panic", val |-> Zero]

(* ----------------------------- inputs ---------------------------------- *)

\* the float of the integer n, which every format given by the bounds holds exactly
Lit(n) == IF n < 0 THEN Fin(1, (0 - n) * Unit) ELSE Fin(0, n * Unit)

MaxFinite == Fin(0, MaxMag)

InputVals ==
    {NaN, Zero, NegZero, Lit(1), Lit(-1), Lit(2), Lit(-2), Lit(3), Lit(-3),
     Lit(4), MaxFinite, Neg(MaxFinite)}

\* every slice of at most MaxLen of the chosen values, and every one-element slice
Inputs ==
    UNION {[1..n -> InputVals] : n \in 0..MaxLen} \cup {<<f>> : f \in F64}

(* --------------------------- the functions ----------------------------- *)

\* iter().sum::<f64>(): a left fold of + from 0.0.  (A standard library that
\* folds from -0.0 differs only in the sign of a sum that is zero.)
RECURSIVE SumFrom(_, _)
SumFrom(acc, xs) ==
    IF xs = <<>> THEN acc ELSE SumFrom(Add(acc, Head(xs)), Tail(xs))

Sum(xs) == SumFrom(Zero, xs)

\* mean with the first element left out of the sum
meanSkipsFirst(ns) ==
    IF ns = <<>> THEN Some(Zero)
    ELSE Some(Div(Sum(Tail(ns)), FromUsize(Len(ns))))

mean(ns) ==
    LET count == FromUsize(Len(ns))
        sum == Sum(ns)
    IN  IF ns = <<>> THEN Some(Zero) ELSE Some(Div(sum, count))

\* stddev dividing by count - 1, the sample estimator
stddevSample(ns) ==
    LET m == mean(ns)
        count == Len(ns)
    IN  IF m.tag = "Some" /\ count > 0
        THEN LET squares == [i \in 1..count |-> Powf2(Sub(m.val, ns[i]))]
             IN  Some(Sqrt(Div(Sum(squares), FromUsize(count - 1))))
        ELSE None

\* stddev taking the deviations from 0.0 instead of from the mean
stddevAboutZero(ns) ==
    LET count == Len(ns)
    IN  IF count > 0
        THEN LET squares == [i \in 1..count |-> Powf2(Sub(Zero, ns[i]))]
             IN  Some(Sqrt(Div(Sum(squares), FromUsize(count))))
        ELSE None

stddev(ns) ==
    LET m == mean(ns)
        count == Len(ns)
    IN  IF m.tag = "Some" /\ count > 0
        THEN LET nums_mean == m.val
                 squares == [i \in 1..count |-> Powf2(Sub(nums_mean, ns[i]))]
                 variance == Div(Sum(squares), FromUsize(count))
             IN  Some(Sqrt(variance))
        ELSE None

\* |a, b| a.partial_cmp(b).unwrap(): unwrap panics on the None of a NaN
UnwrapPanics(a, b) == PartialCmp(a, b) = "None"

\* One insertion of the stable sort: x moves left past every element it is
\* less than.  panic is set by the first comparison that panics; v is then
\* the vector as the unwinding leaves it.
RECURSIVE InsertTail(_, _)
InsertTail(pre, x) ==
    IF pre = <<>> THEN [panic |-> FALSE, v |-> <<x>>]
    ELSE LET n == Len(pre)
             last == pre[n]
         IN  IF UnwrapPanics(x, last)
             THEN [panic |-> TRUE, v |-> Append(pre, x)]
             ELSE IF PartialCmp(x, last) = "Less"
             THEN LET r == InsertTail(SubSeq(pre, 1, n - 1), x)
                  IN  [panic |-> r.panic, v |-> Append(r.v, last)]
             ELSE [panic |-> FALSE, v |-> Append(pre, x)]

\* the first n elements of v sorted, the rest untouched
RECURSIVE SortPrefix(_, _)
SortPrefix(v, n) ==
    IF n <= 1 THEN [panic |-> FALSE, v |-> v]
    ELSE LET r == SortPrefix(v, n - 1)
         IN  IF r.panic THEN r
             ELSE LET ins == InsertTail(SubSeq(r.v, 1, n - 1), r.v[n])
                  IN  [panic |-> ins.panic,
                       v |-> ins.v \o SubSeq(r.v, n + 1, Len(r.v))]

\* v.sort_by(|a, b| a.partial_cmp(b).unwrap())
SortBy(v) == SortPrefix(v, Len(v))

\* nums.to_owned()
ToOwned(ns) == ns

\* median without the sort
medianUnsorted(ns) ==
    LET s == Len(ns)
    IN  IF ns # <<>> THEN Some(ns[((s - 1) \div 2) + 1]) ELSE None

\* median taking index s / 2, the upper of two middle elements
medianUpper(ns) ==
    LET sorted == SortBy(ToOwned(ns))
        s == Len(sorted.v)
    IN  IF sorted.panic THEN Panic
        ELSE IF sorted.v # <<>> THEN Some(sorted.v[(s \div 2) + 1])
        ELSE None

median(ns) ==
    LET sorted == SortBy(ToOwned(ns))
        s == Len(sorted.v)
    IN  IF sorted.panic THEN Panic
        ELSE IF sorted.v # <<>> THEN Some(sorted.v[((s - 1) \div 2) + 1])
        ELSE None

\* for numbers in &mut nums { sum += (*numbers).powf(2.0) }
RECURSIVE SumSquaresFrom(_, _)
SumSquaresFrom(sum, xs) ==
    IF xs = <<>> THEN sum
    ELSE SumSquaresFrom(Add(sum, Powf2(Head(xs))), Tail(xs))

\* l2 without the square root
l2NoSqrt(ns) ==
    IF ns = <<>> THEN Some(Zero) ELSE Some(SumSquaresFrom(Zero, ns))

l2(ns) ==
    LET owned == ToOwned(ns)
    IN  IF owned = <<>> THEN Some(Zero)
        ELSE Some(Sqrt(SumSquaresFrom(Zero, owned)))

(* -------------------------- the state machine -------------------------- *)

\* nums is the caller's slice, op the function called last, result what the
\* call produced, local the function's own vector when the call ended.

Init ==
    /\ nums \in Inputs
    /\ op = "none"
    /\ result = None
    /\ local = <<>>

CallMean ==
    /\ op' = "mean"
    /\ result' = mean(nums)
    /\ local' = <<>>
    /\ UNCHANGED nums

CallStddev ==
    /\ op' = "stddev"
    /\ result' = stddev(nums)
    /\ local' = <<>>
    /\ UNCHANGED nums

\* median sorting the caller's slice itself
CallMedianInPlace ==
    /\ op' = "median"
    /\ result' = median(nums)
    /\ local' = <<>>
    /\ nums' = SortBy(nums).v

CallMedian ==
    /\ op' = "median"
    /\ result' = median(nums)
    /\ local' = SortBy(ToOwned(nums)).v
    /\ UNCHANGED nums

CallL2 ==
    /\ op' = "l2"
    /\ result' = l2(nums)
    /\ local' = ToOwned(nums)
    /\ UNCHANGED nums

Next == CallMean \/ CallStddev \/ CallMedian \/ CallL2

Spec == Init /\ [][Next]_vars

(* ------------------- definitions the properties use -------------------- *)

Called == op # "none"

NaNFree(xs) == \A i \in 1..Len(xs) : ~IsNaN(xs[i])

AllFinite(xs) == \A i \in 1..Len(xs) : IsFinite(xs[i])

\* every reordering of xs
Perms(xs) ==
    {[i \in 1..Len(xs) |-> xs[f[i]]] : f \in Permutations(1..Len(xs))}

\* xs is in ascending order
Ascending(xs) == \A i \in 1..Len(xs), j \in 1..Len(xs) : i < j => FLe(xs[i], xs[j])

\* what the function called last returns on xs
Apply(f, xs) ==
    CASE f = "mean" -> mean(xs)
      [] f = "stddev" -> stddev(xs)
      [] f = "median" -> median(xs)
      [] f = "l2" -> l2(xs)

\* two outcomes are the same: both panic, both None, or both Some of floats
\* that are the same NaN or compare equal
SameOutcome(r, q) ==
    /\ r.tag = q.tag
    /\ r.tag = "Some" => (r.val = q.val \/ FEq(r.val, q.val))

(* -------------------------------- C1 ----------------------------------- *)

\* C1: for every non-empty input of length s, median returns Some of the
\* element at index (s-1) div 2 of the input sorted ascending (the lower of
\* the two middle elements when s is even).  The code panics instead when
\* the input has two or more elements and one of them is NaN.
C1_MedianIsLowerMiddleOfSorted ==
    (op = "median" /\ nums # <<>>) =>
        /\ result.tag = "Some"
        /\ \E srt \in Perms(nums) :
              /\ Ascending(srt)
              /\ result.val = srt[((Len(nums) - 1) \div 2) + 1]

(* -------------------------------- C2 ----------------------------------- *)

\* C2: on the empty input mean and l2 return Some(0.0) and stddev and
\* median return None; on every non-empty input all four return Some.
\* The second half fails where median panics.
C2_EmptyConventionsAndPresence ==
    /\ (Called /\ nums = <<>>) =>
          result = (IF op \in {"mean", "l2"} THEN Some(Zero) ELSE None)
    /\ (Called /\ nums # <<>>) => result.tag = "Some"

(* -------------------------------- C3 ----------------------------------- *)

\* C3: on every input, NaN included, each of the four functions returns
\* Some or None; no call panics.
C3_NoCallPanics == Called => result.tag \in {"Some", "None"}

(* -------------------------------- C4 ----------------------------------- *)

\* C4: a call of median leaves the caller's slice as it was, same values in
\* the same order; the sort works on the function's own copy.
C4_MedianKeepsInput == [][op' = "median" => nums' = nums]_vars

\* median has returned after its sort reordered the copy
C4_Witness ==
    /\ op = "median"
    /\ result.tag = "Some"
    /\ Len(nums) = MaxLen
    /\ local # nums

(* -------------------------------- C5 ----------------------------------- *)

\* the exact sum of the first n elements of finite xs, in units
RECURSIVE IntSum(_, _)
IntSum(xs, n) == IF n = 0 THEN 0 ELSE IntSum(xs, n - 1) + Signed(xs[n])

Magnitude(x) == IF x < 0 THEN 0 - x ELSE x

\* adding up xs from left to right never rounds and never overflows
ExactSum(xs) ==
    /\ AllFinite(xs)
    /\ \A n \in 1..Len(xs) : Representable(Magnitude(IntSum(xs, n)))

\* the terms that mean, stddev and l2 add up on the input xs
Terms(f, xs) ==
    CASE f = "mean" -> xs
      [] f = "stddev" -> [i \in 1..Len(xs) |-> Powf2(Sub(mean(xs).val, xs[i]))]
      [] f = "l2" -> [i \in 1..Len(xs) |-> Powf2(xs[i])]

\* every sum the function forms on xs is exact
ExactSums(f, xs) ==
    /\ ExactSum(xs)
    /\ ExactSum(Terms(f, xs))

\* C5 as stated: each of the four functions returns the same on every
\* reordering of its input.
C5_OrderIndependent ==
    Called => \A q \in Perms(nums) : SameOutcome(Apply(op, q), result)

\* C5 amended: median returns the same on every reordering of its input
\* (panicking on all of them when it panics on one); mean, stddev and l2
\* return the same on two orderings in which every addition of their running
\* sums is exact.  Floating-point addition is not associative, so orderings
\* that round differently can give different results.
C5_OrderIndependentWhenExact ==
    /\ op = "median" =>
          \A q \in Perms(nums) : SameOutcome(median(q), result)
    /\ (op \in {"mean", "stddev", "l2"} /\ ExactSums(op, nums)) =>
          \A q \in Perms(nums) :
              ExactSums(op, q) => SameOutcome(Apply(op, q), result)

\* stddev was called on three values whose sums are exact in the given order
\* and in another one, and returned a positive number
C5_Witness ==
    /\ op = "stddev"
    /\ Len(nums) = 3
    /\ ExactSums(op, nums)
    /\ \E q \in Perms(nums) : q # nums /\ ExactSums(op, q)
    /\ IsFinite(result.val)
    /\ result.val.m > 0

(* -------------------------------- C6 ----------------------------------- *)

\* the sum of (m - x)^2 over the first n elements x of xs
RECURSIVE SquaredDeviations(_, _, _)
SquaredDeviations(xs, m, n) ==
    IF n = 0 THEN Zero
    ELSE Add(SquaredDeviations(xs, m, n - 1), Powf2(Sub(m, xs[n])))

OneAndAHalf == Fin(0, 3 * (Unit \div 2))

\* C6: for a non-empty input of length N, stddev is the square root of the
\* sum of (m - x)^2 over the elements x, divided by N, where m is the value
\* mean returns; stddev([1.0, -2.0]) = 1.5 and stddev([1.0, 1.0]) = 0.0.
C6_StddevIsPopulationDeviation ==
    (op = "stddev" /\ nums # <<>>) =>
        /\ result =
              Some(Sqrt(Div(SquaredDeviations(nums, mean(nums).val, Len(nums)),
                            FromUsize(Len(nums)))))
        /\ nums = <<Lit(1), Lit(-2)>> => result = Some(OneAndAHalf)
        /\ nums = <<Lit(1), Lit(1)>> => result = Some(Zero)

\* stddev was called on several values and returned a positive finite number
C6_Witness ==
    /\ op = "stddev"
    /\ Len(nums) >= 2
    /\ result.tag = "Some"
    /\ IsFinite(result.val)
    /\ result.val.m > 0

(* -------------------------------- C7 ----------------------------------- *)

\* C7 as stated: for every non-empty input stddev is Some of a value >= 0.0,
\* and of exactly 0.0 when the input has one element.
C7_StddevNonNegative ==
    (op = "stddev" /\ nums # <<>>) =>
        /\ result.tag = "Some"
        /\ FGe(result.val, Zero)
        /\ Len(nums) = 1 => result.val = Zero

\* C7 amended: for every non-empty input of finite values (no NaN, no
\* infinity) stddev is Some of a value >= 0.0, and of exactly 0.0 when the
\* input has one element.  A NaN or an infinite element makes the result
\* NaN, which is not >= 0.0.
C7_StddevNonNegativeOnFinite ==
    (op = "stddev" /\ nums # <<>> /\ AllFinite(nums)) =>
        /\ result.tag = "Some"
        /\ FGe(result.val, Zero)
        /\ Len(nums) = 1 => result.val = Zero

\* stddev was called on one finite value other than zero
C7_Witness ==
    /\ op = "stddev"
    /\ Len(nums) = 1
    /\ IsFinite(nums[1])
    /\ nums[1].m > 0

(* -------------------------------- C8 ----------------------------------- *)

\* the sum of x^2 over the first n elements x of xs
RECURSIVE SumOfSquares(_, _)
SumOfSquares(xs, n) ==
    IF n = 0 THEN Zero ELSE Add(SumOfSquares(xs, n - 1), Powf2(xs[n]))

\* the square of x is zero only if x is, is finite if x is, and is not subnormal
SquareInRange(x) ==
    \/ x.k = "inf"
    \/ IsFinite(x) /\ x.m = 0
    \/ IsFinite(x) /\ IsFinite(Powf2(x)) /\ Powf2(x).m >= MinNormal

\* C8 as stated: for every input l2 is Some of the square root of the sum
\* of the squares, so it is >= 0.0, and l2([x]) is the absolute value of x;
\* l2([-3.0, 4.0]) = 5.0.
C8_L2IsNorm ==
    op = "l2" =>
        /\ result = Some(Sqrt(SumOfSquares(nums, Len(nums))))
        /\ FGe(result.val, Zero)
        /\ Len(nums) = 1 => FEq(result.val, Abs(nums[1]))
        /\ nums = <<Lit(-3), Lit(4)>> => result = Some(Lit(5))

\* C8 amended: for every input l2 is Some of the square root of the sum of
\* the squares, computed in floating point; it is >= 0.0 when no element is
\* NaN; l2([x]) is the absolute value of x when x is not NaN and its square
\* neither overflows nor underflows; l2([-3.0, 4.0]) = 5.0.
C8_L2IsNormInRange ==
    op = "l2" =>
        /\ result = Some(Sqrt(SumOfSquares(nums, Len(nums))))
        /\ NaNFree(nums) => FGe(result.val, Zero)
        /\ (Len(nums) = 1 /\ SquareInRange(nums[1])) =>
              result.val = Abs(nums[1])
        /\ nums = <<Lit(-3), Lit(4)>> => result = Some(Lit(5))

\* l2 was called on several values and returned a positive finite number
C8_Witness ==
    /\ op = "l2"
    /\ Len(nums) >= 2
    /\ IsFinite(result.val)
    /\ result.val.m > 0

(* -------------------------------- C9 ----------------------------------- *)

\* the sum of the first n elements of xs
RECURSIVE SumOfFirst(_, _)
SumOfFirst(xs, n) == IF n = 0 THEN Zero ELSE Add(SumOfFirst(xs, n - 1), xs[n])

\* C9: for a non-empty input mean is Some of the sum of the elements
\* divided by their number; where the sum is exact and divides evenly the
\* result is the exact quotient; mean([1.0, 2.0, 3.0]) = 2.0 and
\* mean([-1.0, 1.0]) = 0.0.
C9_MeanIsSumOverCount ==
    (op = "mean" /\ nums # <<>>) =>
        /\ result = Some(Div(SumOfFirst(nums, Len(nums)), FromUsize(Len(nums))))
        /\ (ExactSum(nums) /\ IntSum(nums, Len(nums)) % Len(nums) = 0) =>
              /\ IsFinite(result.val)
              /\ Signed(result.val) * Len(nums) = IntSum(nums, Len(nums))
        /\ nums = <<Lit(1), Lit(2), Lit(3)>> => result = Some(Lit(2))
        /\ nums = <<Lit(-1), Lit(1)>> => result = Some(Zero)

\* mean was called on several values with a sum that is not zero
C9_Witness ==
    /\ op = "mean"
    /\ Len(nums) >= 2
    /\ ExactSum(nums)
    /\ IntSum(nums, Len(nums)) % Len(nums) = 0
    /\ IntSum(nums, Len(nums)) # 0

(* -------------------------------- C10 ---------------------------------- *)

\* C10: for a non-empty NaN-free input of length s the value v that median
\* returns is an element of the input, at least (s-1) div 2 + 1 elements
\* are <= v and at least s - (s-1) div 2 elements are >= v.
C10_MedianIsAnElementInTheMiddle ==
    (op = "median" /\ nums # <<>> /\ NaNFree(nums)) =>
        LET s == Len(nums)
            v == result.val
        IN  /\ result.tag = "Some"
            /\ \E i \in 1..s : nums[i] = v
            /\ Cardinality({i \in 1..s : FLe(nums[i], v)}) >= ((s - 1) \div 2) + 1
            /\ Cardinality({i \in 1..s : FGe(nums[i], v)}) >= s - ((s - 1) \div 2)

\* median was called on two different numbers
C10_Witness ==
    /\ op = "median"
    /\ Len(nums) = 2
    /\ NaNFree(nums)
    /\ ~FEq(nums[1], nums[2])

====
